---------------------------- MODULE Spec2Model ----------------------------
(***************************************************************************)
(* A model of src/health.rs of consul_api: the status aggregator           *)
(* (HealthChecks::aggregates_status), the health queries (Health::service, *)
(* service_private, service_address) and the shared HEALTH handle with     *)
(* Health::reload_client.                                                  *)
(*                                                                         *)
(* Strings that the code compares for equality or concatenates are TLA+    *)
(* strings.  Strings that the code matches against a pattern (check ids,   *)
(* the maintenance keys) are sequences of one-character strings.           *)
(* An Option<T> is a sequence of length at most one: <<>> is None and      *)
(* <<x>> is Some(x).                                                       *)
(***************************************************************************)
EXTENDS Integers, Sequences, FiniteSets, TLC

VARIABLES
    checks,      \* the HealthChecks value aggregates_status is called on
    aggResult,   \* Option<String>: what aggregates_status returned
    c,           \* Health.c of the instance the queries are made on
    call,        \* Option: the arguments of the last service / service_address call
    lastReq,     \* Option: the request the last call handed to the transport
    remote,      \* what the transport answers a request with: a failure or entries
    ret,         \* Option: what the last call returned
    pc,          \* where each task stands
    CLIENT,      \* the client registry api::CLIENT: the configured address
    clientLock,  \* the reader/writer lock of CLIENT
    HEALTH,      \* the lazily initialised shared handle and the Health it holds
    healthLock,  \* the reader/writer lock of HEALTH
    s,           \* reload_client: the Health built from the registry
    cap,         \* a service call through HEALTH: the client it captured
    used,        \* a service call through HEALTH: the client it completed with
    installed    \* the Health last installed in HEALTH, and by what

aggVars == <<checks, aggResult>>
reqVars == <<c, call, lastReq, remote, ret>>
lockVars == <<pc, CLIENT, clientLock, HEALTH, healthLock, s, cap, used, installed>>
vars == <<checks, aggResult, c, call, lastReq, remote, ret,
          pc, CLIENT, clientLock, HEALTH, healthLock, s, cap, used, installed>>

None == <<>>
Some(x) == <<x>>
IsSome(o) == Len(o) = 1
Unwrap(o) == o[1]

(***************************************************************************)
(* Bounds of the model.                                                    *)
(***************************************************************************)
MaxChecks == 3
MaxEntries == 2
NumReaders == 2
NumReloaders == 2
NumWriters == 1

(***************************************************************************)
(* The status vocabulary and the maintenance keys.                         *)
(***************************************************************************)
HEALTH_ANY == "any"
HEALTH_PASSING == "passing"
HEALTH_WARNING == "warning"
HEALTH_CRITICAL == "critical"
HEALTH_MAINT == "maintenance"

NODE_MAINT == <<"_", "n", "o", "d", "e", "_", "m", "a", "i", "n", "t", "e", "n", "a", "n", "c", "e">>

SERVICE_MAINT_PREFIX == <<"_", "s", "e", "r", "v", "i", "c", "e", "_", "m", "a", "i", "n", "t", "e", "n", "a", "n", "c", "e", ":">>

(***************************************************************************)
(* format!("{:?}", s) of a string: the string between double quotes, with  *)
(* a backslash before every double quote and backslash in it.              *)
(***************************************************************************)
RECURSIVE escape_debug(_)
escape_debug(str) ==
    IF str = <<>> THEN <<>>
    ELSE (IF Head(str) \in {"\"", "\\"} THEN <<"\\", Head(str)>> ELSE <<Head(str)>>)
         \o escape_debug(Tail(str))

fmt_debug(str) == <<"\"">> \o escape_debug(str) \o <<"\"">>

(***************************************************************************)
(* Regex::new(pat).is_match(text) for a pattern that is an optional "^"    *)
(* followed by characters that stand for themselves (the only patterns     *)
(* the code builds): the literal is looked for at the start of the text    *)
(* when the pattern is anchored, and anywhere in it otherwise.             *)
(***************************************************************************)
LiteralAt(lit, text, k) ==
    /\ k + Len(lit) - 1 <= Len(text)
    /\ \A i \in 1..Len(lit) : text[k + i - 1] = lit[i]

Regex_is_match(pat, text) ==
    IF pat # <<>> /\ Head(pat) = "^"
    THEN LiteralAt(Tail(pat), text, 1)
    ELSE \E k \in 1..(Len(text) + 1) : LiteralAt(pat, text, k)

(***************************************************************************)
(* The id test of aggregates_status, lines 140-149.                        *)
(***************************************************************************)
MaintPattern == <<"^">> \o fmt_debug(SERVICE_MAINT_PREFIX)

IsMaintId(id) == id = NODE_MAINT \/ Regex_is_match(MaintPattern, id)

(***************************************************************************)
(* HealthChecks::aggregates_status: one pass over the checks from position *)
(* i on with the four flags f; a hard failure returns "" at once.          *)
(***************************************************************************)
NoFlags == [passing |-> FALSE, warning |-> FALSE, critical |-> FALSE, maintenance |-> FALSE]

Precedence(f) ==
    IF f.maintenance THEN HEALTH_MAINT
    ELSE IF f.critical THEN HEALTH_CRITICAL
    ELSE IF f.warning THEN HEALTH_WARNING
    ELSE IF f.passing THEN HEALTH_PASSING
    ELSE HEALTH_PASSING

RECURSIVE AggregateFrom(_, _, _)
AggregateFrom(cs, i, f) ==
    IF i > Len(cs) THEN Precedence(f)
    ELSE LET check == cs[i] IN
         IF IsSome(check.CheckID) /\ IsMaintId(Unwrap(check.CheckID))
         THEN AggregateFrom(cs, i + 1, [f EXCEPT !.maintenance = TRUE])
         ELSE IF IsSome(check.Status)
         THEN LET status == Unwrap(check.Status) IN
              IF status = HEALTH_PASSING
              THEN AggregateFrom(cs, i + 1, [f EXCEPT !.passing = TRUE])
              ELSE IF status = HEALTH_WARNING
              THEN AggregateFrom(cs, i + 1, [f EXCEPT !.warning = TRUE])
              ELSE IF status = HEALTH_CRITICAL
              THEN AggregateFrom(cs, i + 1, [f EXCEPT !.critical = TRUE])
              ELSE ""
         ELSE ""

aggregates_status(cs) == AggregateFrom(cs, 1, NoFlags)

(***************************************************************************)
(* The check lists the remote system may return.  Only CheckID and Status  *)
(* are read by the aggregator.                                             *)
(***************************************************************************)
WebId == <<"w", "e", "b">>

CheckIds ==
    { NODE_MAINT,
      SERVICE_MAINT_PREFIX \o WebId,
      fmt_debug(SERVICE_MAINT_PREFIX) \o WebId,
      WebId }

Statuses == {HEALTH_PASSING, HEALTH_WARNING, HEALTH_CRITICAL, HEALTH_ANY}

HealthCheck ==
    [ CheckID : {None} \cup {Some(id) : id \in CheckIds},
      Status  : {None} \cup {Some(st) : st \in Statuses} ]

HealthChecks == UNION { [1..n -> HealthCheck] : n \in 0..MaxChecks }

Readers == {<<"service", i>> : i \in 1..NumReaders}
Reloaders == {<<"reload_client", i>> : i \in 1..NumReloaders}
Writers == {<<"set_config_address", i>> : i \in 1..NumWriters}
Tasks == Readers \cup Reloaders \cup Writers

Addresses == {"http://127.0.0.1:8500", "http://0.0.0.0:8500"}

Unlocked == [readers |-> [t \in Tasks |-> 0], writer |-> None]

LockIdle ==
    /\ pc = [t \in Tasks |-> "idle"]
    /\ CLIENT = "http://127.0.0.1:8500"
    /\ clientLock = Unlocked
    /\ HEALTH = [state |-> "uninit", by |-> None, val |-> None]
    /\ healthLock = Unlocked
    /\ s = [t \in Tasks |-> None]
    /\ cap = [t \in Tasks |-> None]
    /\ used = [t \in Tasks |-> None]
    /\ installed = [by |-> "nothing", val |-> None]

ReqIdle ==
    /\ c = None
    /\ call = None
    /\ lastReq = None
    /\ remote = [kind |-> "ok", entries |-> <<>>]
    /\ ret = None

InitAgg ==
    /\ checks \in HealthChecks
    /\ aggResult = None
    /\ ReqIdle
    /\ LockIdle

Aggregate ==
    /\ aggResult = None
    /\ aggResult' = Some(aggregates_status(checks))
    /\ UNCHANGED <<checks, reqVars, lockVars>>

NextAgg == Aggregate

SpecAgg == InitAgg /\ [][NextAgg]_vars

(***************************************************************************)
(* The documented id rule: a check is a maintenance check when its id is   *)
(* the node-maintenance key or begins with the service-maintenance prefix. *)
(***************************************************************************)
DocMaintFlagged(check) ==
    /\ IsSome(check.CheckID)
    /\ \/ Unwrap(check.CheckID) = NODE_MAINT
       \/ LiteralAt(SERVICE_MAINT_PREFIX, Unwrap(check.CheckID), 1)

HasServiceMaintId(check) ==
    /\ IsSome(check.CheckID)
    /\ LiteralAt(SERVICE_MAINT_PREFIX, Unwrap(check.CheckID), 1)

ValidStatus(check) ==
    /\ IsSome(check.Status)
    /\ Unwrap(check.Status) \in {HEALTH_PASSING, HEALTH_WARNING, HEALTH_CRITICAL}

HasStatus(cs, st) == \E i \in 1..Len(cs) : cs[i].Status = Some(st)

Aggregated == IsSome(aggResult)

\* C1: for a list with no maintenance check (by the documented id rule) and
\* only passing / warning / critical statuses, the result is critical if any
\* check is critical, else warning if any is warning, else passing; the
\* empty list gives passing.
C1_SeverityPrecedence ==
    (/\ Aggregated
     /\ \A i \in 1..Len(checks) : ~DocMaintFlagged(checks[i]) /\ ValidStatus(checks[i]))
    => Unwrap(aggResult) =
         (IF HasStatus(checks, HEALTH_CRITICAL) THEN HEALTH_CRITICAL
          ELSE IF HasStatus(checks, HEALTH_WARNING) THEN HEALTH_WARNING
          ELSE HEALTH_PASSING)

\* C2: a list holding at least one maintenance check (id is the node key or
\* begins with the service-maintenance prefix) aggregates to maintenance,
\* whatever else is in the list.
C2_MaintenanceWins ==
    (Aggregated /\ \E i \in 1..Len(checks) : DocMaintFlagged(checks[i]))
    => Unwrap(aggResult) = HEALTH_MAINT

\* C3: a list holding a check that is no maintenance check (by the
\* documented id rule) and whose Status is missing or unrecognised
\* aggregates to the empty string, wherever that check stands.
C3_HardFailure ==
    (Aggregated /\ \E i \in 1..Len(checks) :
                      ~DocMaintFlagged(checks[i]) /\ ~ValidStatus(checks[i]))
    => Unwrap(aggResult) = ""

\* C4: a check whose id begins with the service-maintenance prefix counts
\* as a maintenance check and its Status is not evaluated: with every other
\* check valid, the list aggregates to maintenance.
C4_ServicePrefixIsMaintenance ==
    (/\ Aggregated
     /\ \E i \in 1..Len(checks) : HasServiceMaintId(checks[i])
     /\ \A i \in 1..Len(checks) : DocMaintFlagged(checks[i]) \/ ValidStatus(checks[i]))
    => Unwrap(aggResult) = HEALTH_MAINT

(***************************************************************************)
(* Where the id test of the code and the documented id rule agree on every *)
(* check of the list, the precedence and the hard failure are as           *)
(* documented.                                                             *)
(***************************************************************************)
IdTestAgrees ==
    \A i \in 1..Len(checks) :
        DocMaintFlagged(checks[i]) <=>
            (IsSome(checks[i].CheckID) /\ IsMaintId(Unwrap(checks[i].CheckID)))

AggregationWhereIdTestAgrees ==
    (Aggregated /\ IdTestAgrees) =>
        /\ C1_SeverityPrecedence
        /\ C3_HardFailure
        /\ (\A i \in 1..Len(checks) : DocMaintFlagged(checks[i]) \/ ValidStatus(checks[i]))
              => C2_MaintenanceWins

(***************************************************************************)
(* The health queries.                                                     *)
(***************************************************************************)
SERVICE_HEALTH == "service"
CONNECT_HEALTH == "connect"
INGRESS_HEALTH == "ingress"

\* the match on health_type in service_private, lines 239-249
PathOf(health_type, name) ==
    CASE health_type = "service" -> "/v1/health/connect/" \o name
      [] health_type = "ingress" -> "/v1/health/ingress/" \o name
      [] OTHER                   -> "/v1/health/service/" \o name

\* client.new_request(Method::Get, path): a GET request for the path with
\* no query yet
new_request(path) == [method |-> "GET", path |-> path, query |-> <<>>]

\* req.set_query(&q): the query of the request's URL becomes the
\* serialisation of q, a sequence of key/value pairs; what the URL carried
\* before is replaced
set_query(req, q) == [req EXCEPT !.query = q]

\* the serialisations of Tag { tag } and of Passing { passing: "1" }
TagQuery(tag) == << <<"tag", tag>> >>
PassingQuery == << <<"passing", "1">> >>

RECURSIVE SetTags(_, _, _)
SetTags(req, tags, i) ==
    IF i > Len(tags) THEN req
    ELSE SetTags(set_query(req, TagQuery(tags[i])), tags, i + 1)

BuildRequest(name, tags, passing_only, q, health_type) ==
    LET req0 == new_request(PathOf(health_type, name))
        req1 == IF IsSome(q) THEN set_query(req0, Unwrap(q)) ELSE req0
        req2 == IF Len(tags) > 0 THEN SetTags(req1, tags, 1) ELSE req1
        req3 == IF passing_only THEN set_query(req2, PassingQuery) ELSE req2
    IN  req3

Ok(v) == [ok |-> TRUE, val |-> v, err |-> ""]
Err(e) == [ok |-> FALSE, val |-> <<>>, err |-> e]

ClientConfigured_Unchecked(h) == TRUE

\* self.c.is_some(), line 250
ClientConfigured(h) == IsSome(h)

\* service_private on a Health whose c is h, with the transport answering
\* net: whether a request was constructed, the request handed to the
\* transport if one was, and the returned value
service_private(h, name, tags, passing_only, q, health_type, net) ==
    IF ClientConfigured(h)
    THEN IF net.kind = "new_request_err"
         THEN [built |-> FALSE, sent |-> None, result |-> Err("transport")]
         ELSE LET req == BuildRequest(name, tags, passing_only, q, health_type) IN
              IF net.kind = "send_err"
              THEN [built |-> TRUE, sent |-> Some(req), result |-> Err("transport")]
              ELSE IF net.kind = "decode_err"
              THEN [built |-> TRUE, sent |-> Some(req), result |-> Err("decode")]
              ELSE [built |-> TRUE, sent |-> Some(req), result |-> Ok(net.entries)]
    ELSE [built |-> FALSE, sent |-> None, result |-> Err("client init err")]

service(h, name, tag, passing_only, q, net) ==
    LET tags == IF tag # "" THEN <<tag>> ELSE <<>>
    IN  service_private(h, name, tags, passing_only, q, CONNECT_HEALTH, net)

\* format!("{}", n) of an unsigned integer
Digit(d) == <<"0", "1", "2", "3", "4", "5", "6", "7", "8", "9">>[d + 1]

RECURSIVE fmt_display(_)
fmt_display(n) ==
    IF n < 10 THEN Digit(n) ELSE fmt_display(n \div 10) \o Digit(n % 10)

\* the loop of service_address over the entries from position i on, with
\* the addresses pushed so far
RECURSIVE CollectAddresses_StopAtFirstSkipped(_, _, _)
CollectAddresses_StopAtFirstSkipped(entry, i, service_addresses) ==
    IF i > Len(entry) THEN service_addresses
    ELSE LET val == entry[i] IN
         IF IsSome(val.Service)
         THEN LET v == Unwrap(val.Service) IN
              IF IsSome(v.Address) /\ IsSome(v.Port)
              THEN LET address == Unwrap(v.Address) \o ":" \o fmt_display(Unwrap(v.Port))
                   IN  CollectAddresses_StopAtFirstSkipped(
                           entry, i + 1, Append(service_addresses, address))
              ELSE service_addresses
         ELSE service_addresses

RECURSIVE CollectAddresses(_, _, _)
CollectAddresses(entry, i, service_addresses) ==
    IF i > Len(entry) THEN service_addresses
    ELSE LET val == entry[i] IN
         IF IsSome(val.Service)
         THEN LET v == Unwrap(val.Service) IN
              IF IsSome(v.Address) /\ IsSome(v.Port)
              THEN LET address == Unwrap(v.Address) \o ":" \o fmt_display(Unwrap(v.Port))
                   IN  CollectAddresses(entry, i + 1, Append(service_addresses, address))
              ELSE CollectAddresses(entry, i + 1, service_addresses)
         ELSE CollectAddresses(entry, i + 1, service_addresses)

service_address(h, name, tag, passing_only, q, net) ==
    LET o == service(h, name, tag, passing_only, q, net) IN
    IF o.result.ok
    THEN [o EXCEPT !.result = Ok([address |-> CollectAddresses(o.result.val, 1, <<>>)])]
    ELSE o

(***************************************************************************)
(* The inputs of the queries and the answers of the remote system.         *)
(***************************************************************************)
ServiceNames == {"web", "db"}
TagArgs == {"", "v2"}
QueryOptions == {None, Some(<< <<"dc", "dc1">> >>)}
Clients == {"http://127.0.0.1:8500"}

AgentService ==
    [ Address : {None, Some("10.0.0.1"), Some("10.0.0.2")},
      Port    : {None, Some(8080), Some(80)} ]

ServiceEntry == [ Service : {None} \cup {Some(v) : v \in AgentService} ]

Answers ==
    [kind : {"new_request_err", "send_err", "decode_err"}, entries : {<<>>}]
    \cup
    [kind : {"ok"}, entries : UNION { [1..n -> ServiceEntry] : n \in 0..MaxEntries }]

InitReq ==
    /\ checks = <<>>
    /\ aggResult = None
    /\ c \in {None} \cup {Some(cl) : cl \in Clients}
    /\ remote \in Answers
    /\ call = None
    /\ lastReq = None
    /\ ret = None
    /\ LockIdle

Service ==
    \E name \in ServiceNames, tag \in TagArgs, passing_only \in BOOLEAN, q \in QueryOptions :
        LET o == service(c, name, tag, passing_only, q, remote) IN
        /\ call' = Some([op |-> "service", name |-> name, tag |-> tag,
                         passing_only |-> passing_only, q |-> q])
        /\ lastReq' = o.sent
        /\ ret' = Some([built |-> o.built, result |-> o.result])
        /\ UNCHANGED <<c, remote, aggVars, lockVars>>

ServiceAddress ==
    \E name \in ServiceNames, tag \in TagArgs, passing_only \in BOOLEAN, q \in QueryOptions :
        LET o == service_address(c, name, tag, passing_only, q, remote) IN
        /\ call' = Some([op |-> "service_address", name |-> name, tag |-> tag,
                         passing_only |-> passing_only, q |-> q])
        /\ lastReq' = o.sent
        /\ ret' = Some([built |-> o.built, result |-> o.result])
        /\ UNCHANGED <<c, remote, aggVars, lockVars>>

NextReq == Service \/ ServiceAddress

SpecReq == InitReq /\ [][NextReq]_vars

\* C5: every call of service, which fixes the variant to connect, sends its
\* GET request to /v1/health/connect/{name}.
C5_ServiceUsesConnectPath ==
    IsSome(lastReq) =>
        /\ Unwrap(lastReq).method = "GET"
        /\ Unwrap(lastReq).path = "/v1/health/connect/" \o Unwrap(call).name

\* The query the documentation describes: the options, then one tag
\* parameter per tag, then passing=1 when passing_only is set.
DocumentedQuery(a) ==
    (IF IsSome(a.q) THEN Unwrap(a.q) ELSE <<>>)
    \o (IF a.tag # "" THEN << <<"tag", a.tag>> >> ELSE <<>>)
    \o (IF a.passing_only THEN << <<"passing", "1">> >> ELSE <<>>)

\* C6: the query of the request that is sent holds the supplied options, one
\* tag parameter per tag and passing=1 exactly when passing_only is true,
\* all together (tag v2 with passing_only gives tag=v2&passing=1).
C6_QueryHoldsOptionsTagsPassing ==
    IsSome(lastReq) => Unwrap(lastReq).query = DocumentedQuery(Unwrap(call))

\* C9: with no client configured, service and service_address return the
\* error "client init err" and no request is constructed or sent.
C9_NoClientFailsBeforeAnyRequest ==
    (c = None /\ IsSome(ret)) =>
        /\ ~Unwrap(ret).result.ok
        /\ Unwrap(ret).result.err = "client init err"
        /\ ~Unwrap(ret).built
        /\ lastReq = None

C9_Witness ==
    /\ c = None
    /\ IsSome(ret)
    /\ Unwrap(call).op = "service_address"
    /\ remote.kind = "ok"
    /\ Len(remote.entries) > 0
    /\ Unwrap(ret).result.err = "client init err"

FullyPopulated(e) ==
    /\ IsSome(e.Service)
    /\ IsSome(Unwrap(e.Service).Address)
    /\ IsSome(Unwrap(e.Service).Port)

HostPort(e) ==
    Unwrap(Unwrap(e.Service).Address) \o ":" \o ToString(Unwrap(Unwrap(e.Service).Port))

ProjectedAddresses(entries) ==
    LET full == SelectSeq(entries, FullyPopulated)
    IN  [i \in 1..Len(full) |-> HostPort(full[i])]

ExampleEntries ==
    << [Service |-> Some([Address |-> Some("10.0.0.1"), Port |-> Some(8080)])],
       [Service |-> Some([Address |-> Some("10.0.0.1"), Port |-> None])] >>

\* C10: service_address returns the address:port strings of the entries
\* that have a Service with both Address and Port, in the order of the
\* entries and with duplicates kept; the other entries add nothing and
\* raise no error (10.0.0.1/8080 and an entry without port give exactly
\* ["10.0.0.1:8080"]).
C10_AddressProjection ==
    (/\ IsSome(ret)
     /\ Unwrap(call).op = "service_address"
     /\ IsSome(lastReq)
     /\ remote.kind = "ok")
    => /\ Unwrap(ret).result.ok
       /\ Unwrap(ret).result.val.address = ProjectedAddresses(remote.entries)
       /\ remote.entries = ExampleEntries
             => Unwrap(ret).result.val.address = <<"10.0.0.1:8080">>

C10_Witness ==
    /\ IsSome(ret)
    /\ Unwrap(call).op = "service_address"
    /\ remote.kind = "ok"
    /\ remote.entries = ExampleEntries
    /\ Unwrap(ret).result.ok
    /\ Unwrap(ret).result.val.address = <<"10.0.0.1:8080">>

(***************************************************************************)
(* The shared handle.  HEALTH is an Arc<RwLock<Health>> that is built on   *)
(* its first use from the client registry CLIENT, itself behind a          *)
(* reader/writer lock.  The locks are those of async_std::sync::RwLock,    *)
(* which prefers writers: a task that asks for the write lock announces    *)
(* itself, after which no new read lock is granted, and gets the lock when *)
(* the read guards that are out have been dropped.                         *)
(***************************************************************************)
\* lock.read(): granted unless a writer has announced itself
CanRead(lock) == lock.writer = None

AcquireRead(lock, t) == [lock EXCEPT !.readers[t] = @ + 1]
ReleaseRead(lock, t) == [lock EXCEPT !.readers[t] = @ - 1]

\* lock.write(), first half: one writer at a time announces itself
CanAnnounceWrite(lock) == lock.writer = None

Announce(lock, t) == [lock EXCEPT !.writer = Some(t)]
ReleaseWrite(lock) == [lock EXCEPT !.writer = None]

WriteGranted_WithoutDraining(lock, t) == lock.writer = Some(t)

\* lock.write(), second half: granted once no read guard is out
WriteGranted(lock, t) ==
    /\ lock.writer = Some(t)
    /\ \A u \in Tasks : lock.readers[u] = 0

\* client.health(): a Health whose c is the client of the registry
client_health(address) == Some(address)

\* HEALTH.clone() or HEALTH.read(): the first task to touch HEALTH runs its
\* initialiser, the others wait until it is done
HealthDeref(t, initpc, nextpc) ==
    /\ HEALTH.state # "running"
    /\ IF HEALTH.state = "uninit"
       THEN /\ HEALTH' = [HEALTH EXCEPT !.state = "running", !.by = Some(t)]
            /\ pc' = [pc EXCEPT ![t] = initpc]
       ELSE /\ pc' = [pc EXCEPT ![t] = nextpc]
            /\ UNCHANGED HEALTH

\* the initialiser of HEALTH, lines 68-73: block_on(client.read()), then the
\* Health of the registry's client; the read guard is dropped on return
HealthInit(t, nextpc) ==
    /\ HEALTH.state = "running"
    /\ HEALTH.by = Some(t)
    /\ CanRead(clientLock)
    /\ HEALTH' = [state |-> "done", by |-> Some(t), val |-> client_health(CLIENT)]
    /\ installed' = [by |-> "initialiser", val |-> client_health(CLIENT)]
    /\ pc' = [pc EXCEPT ![t] = nextpc]

\* a task calls HEALTH.read().await and then service on the guard
ReaderDeref(t) ==
    /\ pc[t] = "idle"
    /\ HealthDeref(t, "rd_init", "rd_lock")
    /\ cap' = [cap EXCEPT ![t] = None]
    /\ used' = [used EXCEPT ![t] = None]
    /\ UNCHANGED <<CLIENT, clientLock, healthLock, s, installed, aggVars, reqVars>>

ReaderInit(t) ==
    /\ pc[t] = "rd_init"
    /\ HealthInit(t, "rd_lock")
    /\ UNCHANGED <<CLIENT, clientLock, healthLock, s, cap, used, aggVars, reqVars>>

\* the read lock is granted and the call starts with the client it finds
ReaderLock(t) ==
    /\ pc[t] = "rd_lock"
    /\ CanRead(healthLock)
    /\ healthLock' = AcquireRead(healthLock, t)
    /\ cap' = [cap EXCEPT ![t] = HEALTH.val]
    /\ pc' = [pc EXCEPT ![t] = "rd_call"]
    /\ UNCHANGED <<CLIENT, clientLock, HEALTH, s, used, installed, aggVars, reqVars>>

\* the call completes on the Health behind its guard and drops the guard
ReaderFinish(t) ==
    /\ pc[t] = "rd_call"
    /\ used' = [used EXCEPT ![t] = HEALTH.val]
    /\ healthLock' = ReleaseRead(healthLock, t)
    /\ pc' = [pc EXCEPT ![t] = "idle"]
    /\ UNCHANGED <<CLIENT, clientLock, HEALTH, s, cap, installed, aggVars, reqVars>>

\* reload_client, lines 219-221: the read lock of the registry, kept until
\* the function returns, and the Health of its client
ReloadReadClient(t) ==
    /\ pc[t] = "idle"
    /\ CanRead(clientLock)
    /\ clientLock' = AcquireRead(clientLock, t)
    /\ s' = [s EXCEPT ![t] = client_health(CLIENT)]
    /\ pc' = [pc EXCEPT ![t] = "rl_deref"]
    /\ UNCHANGED <<CLIENT, HEALTH, healthLock, cap, used, installed, aggVars, reqVars>>

\* reload_client, line 222: HEALTH.clone()
ReloadDeref(t) ==
    /\ pc[t] = "rl_deref"
    /\ HealthDeref(t, "rl_init", "rl_write")
    /\ UNCHANGED <<CLIENT, clientLock, healthLock, s, cap, used, installed, aggVars, reqVars>>

ReloadInit(t) ==
    /\ pc[t] = "rl_init"
    /\ HealthInit(t, "rl_write")
    /\ UNCHANGED <<CLIENT, clientLock, healthLock, s, cap, used, aggVars, reqVars>>

\* reload_client, line 223: health.write()
ReloadAnnounce(t) ==
    /\ pc[t] = "rl_write"
    /\ CanAnnounceWrite(healthLock)
    /\ healthLock' = Announce(healthLock, t)
    /\ pc' = [pc EXCEPT ![t] = "rl_wait"]
    /\ UNCHANGED <<CLIENT, clientLock, HEALTH, s, cap, used, installed, aggVars, reqVars>>

\* reload_client, lines 223-225: the write lock is granted, *health = s, and
\* the function returns, dropping the write guard and the registry's read
\* guard
ReloadInstall(t) ==
    /\ pc[t] = "rl_wait"
    /\ WriteGranted(healthLock, t)
    /\ HEALTH' = [HEALTH EXCEPT !.val = s[t]]
    /\ installed' = [by |-> "reload_client", val |-> s[t]]
    /\ healthLock' = ReleaseWrite(healthLock)
    /\ clientLock' = ReleaseRead(clientLock, t)
    /\ s' = [s EXCEPT ![t] = None]
    /\ pc' = [pc EXCEPT ![t] = "idle"]
    /\ UNCHANGED <<CLIENT, cap, used, aggVars, reqVars>>

\* api::Client::set_config_address: the write lock of the registry
WriterAnnounce(t) ==
    /\ pc[t] = "idle"
    /\ CanAnnounceWrite(clientLock)
    /\ clientLock' = Announce(clientLock, t)
    /\ pc' = [pc EXCEPT ![t] = "w_wait"]
    /\ UNCHANGED <<CLIENT, HEALTH, healthLock, s, cap, used, installed, aggVars, reqVars>>

WriterSet(t) ==
    /\ pc[t] = "w_wait"
    /\ WriteGranted(clientLock, t)
    /\ \E address \in Addresses \ {CLIENT} : CLIENT' = address
    /\ clientLock' = ReleaseWrite(clientLock)
    /\ pc' = [pc EXCEPT ![t] = "idle"]
    /\ UNCHANGED <<HEALTH, healthLock, s, cap, used, installed, aggVars, reqVars>>

InitLock ==
    /\ checks = <<>>
    /\ aggResult = None
    /\ ReqIdle
    /\ LockIdle

NextLock ==
    \/ \E t \in Readers : ReaderDeref(t)
    \/ \E t \in Readers : ReaderInit(t)
    \/ \E t \in Readers : ReaderLock(t)
    \/ \E t \in Readers : ReaderFinish(t)
    \/ \E t \in Reloaders : ReloadReadClient(t)
    \/ \E t \in Reloaders : ReloadDeref(t)
    \/ \E t \in Reloaders : ReloadInit(t)
    \/ \E t \in Reloaders : ReloadAnnounce(t)
    \/ \E t \in Reloaders : ReloadInstall(t)
    \/ \E t \in Writers : WriterAnnounce(t)
    \/ \E t \in Writers : WriterSet(t)

SpecLock == InitLock /\ [][NextLock]_vars

\* C7: a service call made through HEALTH after a reload_client has
\* returned runs with the client that reload installed (until a later
\* reload installs another); a call in flight when a reload starts
\* completes with the client it captured; what a reader finds in HEALTH is
\* always a Health installed whole by the initialiser or by a reload.
C7_ReadersSeeInstalledClient ==
    \A t \in Readers :
        /\ pc[t] = "rd_call" =>
              /\ cap[t] = installed.val
              /\ cap[t] = HEALTH.val
              /\ cap[t] \in {client_health(a) : a \in Addresses}
        /\ IsSome(used[t]) => used[t] = cap[t]

C7_Witness ==
    \E t \in Readers, r2 \in Reloaders :
        /\ pc[t] = "rd_call"
        /\ installed.by = "reload_client"
        /\ cap[t] = installed.val
        /\ cap[t] # client_health("http://127.0.0.1:8500")
        /\ pc[r2] = "rl_wait"
        /\ s[r2] # cap[t]

\* C8: no task waits for a lock while it holds one that the task it waits
\* for needs: in particular reload_client, holding the registry's read
\* lock, never waits in the initialiser of HEALTH for a second read lock of
\* the registry behind a writer that waits for the first to be dropped.
C8_NoDeadlock ==
    ~ \E t \in Reloaders, w \in Writers :
        /\ pc[t] = "rl_init"
        /\ clientLock.readers[t] > 0
        /\ pc[w] = "w_wait"
        /\ clientLock.writer = Some(w)
        /\ ~ENABLED ReloadInit(t)
        /\ ~ENABLED WriterSet(w)

=============================================================================
